---- MODULE Spec2Model ----
(***************************************************************************)
(* Model of camosaan/tz-tracker, scrape_tz.py: the Terror Zone alert       *)
(* scheduler.  One run of main() is a sequence of steps, one per external  *)
(* call (page fetch, webhook delete, webhook create) together with the     *)
(* cache assignments and save_cache calls that follow it in the code.      *)
(***************************************************************************)
EXTENDS Integers, Sequences, FiniteSets, TLC

\* ------------------------------------------------------------------------
\* Bounds of the model
\* ------------------------------------------------------------------------
MaxRuns == 2
\* runs of a behaviour that also records the run before the current one
MaxTrackedRuns == 3

\* ------------------------------------------------------------------------
\* Program constants and value domains
\* ------------------------------------------------------------------------
\* Python None for a zone name / for a message id
None == "None"
NoId == 0

WATCHLIST == {"Worldstone Keep", "Chaos Sanctuary", "The Secret Cow Level", "Cathedral"}

\* zone names the tracker page can show in the model (one is off the watchlist)
CurZones == {None, "Tristram"}
NextZones == {None, "Cathedral", "Tristram"}

\* minutes to the next hour a run can observe: one value inside each band,
\* and one between bands
MinsSamples == {55, 40, 30, 15, 5}

\* HTTP outcomes of a webhook DELETE: 204 deleted, 404 not found, 500 any
\* other status, "exc" a transport error (requests raises)
DeleteOutcomes == {"204", "404", "500", "exc"}

\* ------------------------------------------------------------------------
\* Pure functions
\* ------------------------------------------------------------------------
\* mutant: the initial band starts one minute late (`> 50`)
determine_stage_LateInitial(mins_to_hour) ==
  IF mins_to_hour > 50 THEN "initial"
  ELSE IF 26 <= mins_to_hour /\ mins_to_hour <= 35 THEN "30min"
  ELSE IF 12 <= mins_to_hour /\ mins_to_hour <= 18 THEN "15min"
  ELSE IF 3 <= mins_to_hour /\ mins_to_hour <= 7 THEN "5min"
  ELSE "outside_window"

determine_stage(mins_to_hour) ==
  IF mins_to_hour >= 50 THEN "initial"
  ELSE IF 26 <= mins_to_hour /\ mins_to_hour <= 35 THEN "30min"
  ELSE IF 12 <= mins_to_hour /\ mins_to_hour <= 18 THEN "15min"
  ELSE IF 3 <= mins_to_hour /\ mins_to_hour <= 7 THEN "5min"
  ELSE "outside_window"

\* `next_zone or "Unknown"`
OrUnknown(zone) == IF zone = None THEN "Unknown" ELSE zone

\* f"{(next_zone or 'Unknown')}_{stage}"
cache_key(next_zone, stage) == <<OrUnknown(next_zone), stage>>

\* the template branch build_alert_message takes for a stage
build_alert_message(zone, stage) ==
  [kind |-> "alert", a |-> zone,
   b |-> IF stage \in {"initial", "30min", "15min"} THEN stage ELSE "5min"]

build_info_message(current_zone, next_zone) ==
  [kind |-> "info", a |-> OrUnknown(current_zone), b |-> OrUnknown(next_zone)]

\* mutant: a 404 answer is reported as a failure
DeleteReturns_Only204(outcome) == outcome = "204"

\* delete_message_by_id's return value for an HTTP outcome
DeleteReturns(outcome) == outcome \in {"204", "404"}

\* load_cache() on a missing file: {}  (every .get() is None)
EmptyCache == [info |-> NoId, alert |-> NoId, fired |-> {}]

\* ------------------------------------------------------------------------
\* State
\* ------------------------------------------------------------------------
VARIABLES
  disk,    \* content of tz_alert_cache.json (EmptyCache: no file yet)
  cache,   \* the dict `cache` of the running main()
  live,    \* kind of each message that exists on the webhook's channel, by id
  nextId,  \* the id the webhook gives the next message it creates
  pc,      \* position of main(): the external call it is about to make
  run,     \* environment flags and snapshot of the current (or last) run
  todo,    \* demo mode: watchlist zones the loop has not posted yet
  log,     \* external calls and saves of the current (or last) run, in order
  pre,     \* content of the cache file when the current run started
  prev,    \* summary of the run before the current one
  nruns    \* number of runs started

vars == <<disk, cache, live, nextId, pc, run, todo, log, pre, prev, nruns>>

\* one external call or save: res is its outcome, msg the body of a create
NoMsg == [kind |-> "-", a |-> "-", b |-> "-"]
Event(op, kind, id, res) ==
  [op |-> op, kind |-> kind, id |-> id, res |-> res, msg |-> NoMsg]
Created(kind, id, msg) ==
  [op |-> "create", kind |-> kind, id |-> id, res |-> "ok", msg |-> msg]

\* the channel: a set of <<id, kind>>
LiveIds == {m[1] : m \in live}
Remove(id) == {m \in live : m[1] # id}

\* fetched: "no" before get_current_and_next() returns, then "ok" or "exc"
NoRun == [demo |-> FALSE, force |-> FALSE, fetched |-> "no",
          cur |-> None, nxt |-> None, mins |-> -1, stage |-> "none",
          track2 |-> FALSE, raised |-> FALSE]

\* ---- what a run did, read off its log ----
Count(l, op, kind, results) ==
  Cardinality({i \in 1..Len(l) :
                 l[i].op = op /\ l[i].kind = kind /\ l[i].res \in results})

AlertsSent(l) == Count(l, "create", "alert", {"ok"})
AlertCreates(l) == Count(l, "create", "alert", {"ok", "exc"})
InfoCreates(l) == Count(l, "create", "info", {"ok", "exc"})
InfoDeletes(l) == Count(l, "delete", "info", DeleteOutcomes)
AlertDeletes(l) == Count(l, "delete", "alert", DeleteOutcomes)
NotifierCalls(l) ==
  Cardinality({i \in 1..Len(l) : l[i].op \in {"create", "delete"}})
\* a notifier call that did not succeed (404 on delete counts as success)
NotifierFailures(l) ==
  Cardinality({i \in 1..Len(l) :
                 /\ l[i].op \in {"create", "delete"}
                 /\ l[i].res \in {"500", "exc"}})

\* the run obtained a snapshot: the page loaded and named at least one zone
GotSnapshot(r) == r.fetched = "ok" /\ ~(r.cur = None /\ r.nxt = None)

\* what a behaviour remembers of the run before the current one; marked: the
\* pair (next zone, stage) was already marked fired when that run started
Summary(valid, r, l, before) ==
  [valid |-> valid, force |-> r.force, got |-> GotSnapshot(r),
   cur |-> r.cur, nxt |-> r.nxt, mins |-> r.mins, stage |-> r.stage,
   alerts |-> AlertsSent(l), failures |-> NotifierFailures(l) > 0,
   marked |-> cache_key(r.nxt, r.stage) \in before.fired]

\* ------------------------------------------------------------------------
\* main(): decisions that make no external call
\* ------------------------------------------------------------------------
\* mutant: both `not`s dropped from the test
NoZones_Inverted(current_zone, next_zone) ==
  current_zone # None /\ next_zone # None

\* `if not next_zone and not current_zone: return`
NoZones(current_zone, next_zone) == current_zone = None /\ next_zone = None

\* mutant: `or force` dropped
InfoDue_StageOnly(stage_guess, force) == stage_guess = "initial"

\* `if stage_guess == "initial" or force:`  (TRACK 1)
InfoDue(stage_guess, force) == stage_guess = "initial" \/ force

\* mutant: the dedupe test on cache_key is missing
AlertRoute_NoDedup(force, next_zone, stage, c) ==
  IF ~force /\ next_zone \notin WATCHLIST /\ stage = "initial"
    THEN (IF c.alert # NoId THEN "cleanup_delete" ELSE "done")
  ELSE IF ~force /\ stage = "outside_window" THEN "done"
  ELSE IF next_zone \notin WATCHLIST /\ ~force THEN "done"
  ELSE IF c.alert # NoId THEN "alert_delete"
  ELSE "alert_send"

\* mutant: the watchlist test after the window test is missing
AlertRoute_NoWatchlist(force, next_zone, stage, c) ==
  IF ~force /\ next_zone \notin WATCHLIST /\ stage = "initial"
    THEN (IF c.alert # NoId THEN "cleanup_delete" ELSE "done")
  ELSE IF ~force /\ stage = "outside_window" THEN "done"
  ELSE IF ~force /\ cache_key(next_zone, stage) \in c.fired THEN "done"
  ELSE IF c.alert # NoId THEN "alert_delete"
  ELSE "alert_send"

\* TRACK 2 up to its first external call: where main() goes next
AlertRoute(force, next_zone, stage, c) ==
  IF ~force /\ next_zone \notin WATCHLIST /\ stage = "initial"
    THEN (IF c.alert # NoId THEN "cleanup_delete" ELSE "done")
  ELSE IF ~force /\ stage = "outside_window" THEN "done"
  ELSE IF next_zone \notin WATCHLIST /\ ~force THEN "done"
  ELSE IF ~force /\ cache_key(next_zone, stage) \in c.fired THEN "done"
  ELSE IF c.alert # NoId THEN "alert_delete"
  ELSE "alert_send"

\* `effective_stage = "initial" if (force and stage == "outside_window") else stage`
effective_stage(force, stage) ==
  IF force /\ stage = "outside_window" THEN "initial" ELSE stage

\* a DELETE's outcome is consistent with the channel: 204 removes a message
\* that exists, 404 answers for one that does not
DeleteFeasible(id, outcome) ==
  /\ outcome = "204" => id \in LiveIds
  /\ outcome = "404" => id \notin LiveIds

\* ------------------------------------------------------------------------
\* Initial state: no cache file, empty channel, no run yet
\* ------------------------------------------------------------------------
Init ==
  /\ disk = EmptyCache
  /\ cache = EmptyCache
  /\ live = {}
  /\ nextId = 1
  /\ pc = "done"
  /\ run = NoRun
  /\ todo = {}
  /\ log = <<>>
  /\ pre = EmptyCache
  /\ prev = Summary(FALSE, NoRun, <<>>, EmptyCache)
  /\ nruns = 0

\* ------------------------------------------------------------------------
\* Steps of main()
\* ------------------------------------------------------------------------
\* the cron trigger starts main(): load_cache(), then the demo-flag test.
\* p is what the behaviour remembers of the run that just ended.
Begin(demo, p) ==
  /\ pc = "done"
  /\ run' = [NoRun EXCEPT !.demo = demo]
  /\ pc' = IF demo THEN "demo" ELSE "fetch"
  /\ todo' = IF demo THEN WATCHLIST ELSE {}
  /\ cache' = disk
  /\ pre' = disk
  /\ prev' = p
  /\ log' = <<Event("load", "-", NoId, "ok")>>
  /\ nruns' = nruns + 1
  /\ UNCHANGED <<disk, live, nextId>>

StartRun ==
  /\ nruns < MaxRuns
  /\ \E demo \in BOOLEAN : Begin(demo, prev)

\* demo mode, one iteration of `for zone in WATCHLIST` (set order is arbitrary)
DemoSend ==
  /\ pc = "demo"
  /\ \E zone \in todo :
       \/ /\ log' = Append(log, Created("demo", nextId,
                                         build_alert_message(zone, "initial")))
          /\ live' = live \cup {<<nextId, "demo">>}
          /\ nextId' = nextId + 1
          /\ todo' = todo \ {zone}
          /\ pc' = IF todo' = {} THEN "done" ELSE "demo"
          /\ UNCHANGED run
       \/ /\ log' = Append(log, Event("create", "demo", NoId, "exc"))
          /\ run' = [run EXCEPT !.raised = TRUE]
          /\ pc' = "done"
          /\ UNCHANGED <<nextId, live, todo>>
  /\ UNCHANGED <<disk, cache, pre, prev, nruns>>

\* get_current_and_next() raises (requests.get / raise_for_status)
FetchFails ==
  /\ pc = "fetch"
  /\ log' = Append(log, Event("fetch", "-", NoId, "exc"))
  /\ run' = [run EXCEPT !.fetched = "exc", !.raised = TRUE]
  /\ pc' = "done"
  /\ UNCHANGED <<disk, cache, live, nextId, todo, pre, prev, nruns>>

\* get_current_and_next() returns; main() reads the clock and FORCE_DISCORD
\* and runs up to its first webhook call
FetchFrom(currents, nexts, minutes, forces) ==
  /\ pc = "fetch"
  /\ log' = Append(log, Event("fetch", "-", NoId, "ok"))
  /\ \E current_zone \in currents, next_zone \in nexts,
        mins \in minutes, force \in forces :
       IF NoZones(current_zone, next_zone)
         THEN /\ pc' = "done"
              /\ run' = [run EXCEPT !.fetched = "ok", !.cur = current_zone,
                                   !.nxt = next_zone]
         ELSE LET stage == determine_stage(mins)
                  info == InfoDue(stage, force)
              IN /\ run' = [run EXCEPT !.fetched = "ok", !.cur = current_zone,
                                      !.nxt = next_zone, !.mins = mins,
                                      !.stage = stage, !.force = force,
                                      !.track2 = ~info]
                 /\ pc' = IF info
                            THEN (IF cache.info # NoId THEN "info_delete"
                                  ELSE "info_send")
                            ELSE AlertRoute(force, next_zone, stage, cache)
  /\ UNCHANGED <<disk, cache, live, nextId, todo, pre, prev, nruns>>

Fetch == FetchFrom(CurZones, NextZones, MinsSamples, BOOLEAN)

\* TRACK 1: delete_message_by_id(last_info_id)
InfoDelete ==
  /\ pc = "info_delete"
  /\ \E outcome \in DeleteOutcomes :
       /\ DeleteFeasible(cache.info, outcome)
       /\ log' = Append(log, Event("delete", "info", cache.info, outcome))
       /\ live' = IF outcome = "204" THEN Remove(cache.info) ELSE live
       /\ cache' = IF DeleteReturns(outcome)
                     THEN [cache EXCEPT !.info = NoId] ELSE cache
  /\ pc' = "info_send"
  /\ UNCHANGED <<disk, nextId, run, todo, pre, prev, nruns>>

\* TRACK 1: send_discord_message(info_msg), record the id, save_cache
InfoSend ==
  /\ pc = "info_send"
  /\ \/ LET id == nextId
            c == [cache EXCEPT !.info = id]
        IN /\ live' = live \cup {<<id, "info">>}
           /\ nextId' = nextId + 1
           /\ cache' = c
           /\ disk' = c
           /\ log' = log \o <<Created("info", id,
                                      build_info_message(run.cur, run.nxt)),
                              Event("save", "-", NoId, "ok")>>
           /\ run' = [run EXCEPT !.track2 = TRUE]
           /\ pc' = AlertRoute(run.force, run.nxt, run.stage, c)
     \/ /\ log' = Append(log, Event("create", "info", NoId, "exc"))
        /\ run' = [run EXCEPT !.raised = TRUE]
        /\ pc' = "done"
        /\ UNCHANGED <<disk, cache, live, nextId>>
  /\ UNCHANGED <<todo, pre, prev, nruns>>

\* TRACK 2, special case at :05: delete the last alert and return
CleanupDelete ==
  /\ pc = "cleanup_delete"
  /\ \E outcome \in DeleteOutcomes :
       /\ DeleteFeasible(cache.alert, outcome)
       /\ live' = IF outcome = "204" THEN Remove(cache.alert) ELSE live
       /\ IF DeleteReturns(outcome)
            THEN /\ cache' = [cache EXCEPT !.alert = NoId]
                 /\ disk' = cache'
                 /\ log' = log \o <<Event("delete", "alert", cache.alert, outcome),
                                    Event("save", "-", NoId, "ok")>>
            ELSE /\ log' = Append(log, Event("delete", "alert", cache.alert, outcome))
                 /\ UNCHANGED <<cache, disk>>
  /\ pc' = "done"
  /\ UNCHANGED <<nextId, run, todo, pre, prev, nruns>>

\* mutant: the cleared id is not saved after the delete
AlertDelete_NoSave ==
  /\ pc = "alert_delete"
  /\ \E outcome \in DeleteOutcomes :
       /\ DeleteFeasible(cache.alert, outcome)
       /\ live' = IF outcome = "204" THEN Remove(cache.alert) ELSE live
       /\ log' = Append(log, Event("delete", "alert", cache.alert, outcome))
       /\ cache' = IF DeleteReturns(outcome)
                     THEN [cache EXCEPT !.alert = NoId] ELSE cache
  /\ pc' = "alert_send"
  /\ UNCHANGED <<disk, nextId, run, todo, pre, prev, nruns>>

\* TRACK 2: delete the previous alert before sending the new one
AlertDelete ==
  /\ pc = "alert_delete"
  /\ \E outcome \in DeleteOutcomes :
       /\ DeleteFeasible(cache.alert, outcome)
       /\ live' = IF outcome = "204" THEN Remove(cache.alert) ELSE live
       /\ IF DeleteReturns(outcome)
            THEN /\ cache' = [cache EXCEPT !.alert = NoId]
                 /\ disk' = cache'
                 /\ log' = log \o <<Event("delete", "alert", cache.alert, outcome),
                                    Event("save", "-", NoId, "ok")>>
            ELSE /\ log' = Append(log, Event("delete", "alert", cache.alert, outcome))
                 /\ UNCHANGED <<cache, disk>>
  /\ pc' = "alert_send"
  /\ UNCHANGED <<nextId, run, todo, pre, prev, nruns>>

\* mutant: the stage is marked fired and saved before the send
AlertSend_MarkBeforeSend ==
  /\ pc = "alert_send"
  /\ LET marked == [cache EXCEPT !.fired = @ \cup {cache_key(run.nxt, run.stage)}]
     IN \/ LET id == nextId
               c == [marked EXCEPT !.alert = id]
           IN /\ live' = live \cup {<<id, "alert">>}
              /\ nextId' = nextId + 1
              /\ cache' = c
              /\ disk' = c
              /\ log' = log \o <<Event("save", "-", NoId, "ok"),
                                 Created("alert", id,
                                         build_alert_message(OrUnknown(run.nxt),
                                           effective_stage(run.force, run.stage))),
                                 Event("save", "-", NoId, "ok")>>
              /\ UNCHANGED run
        \/ /\ log' = log \o <<Event("save", "-", NoId, "ok"),
                               Event("create", "alert", NoId, "exc")>>
           /\ run' = [run EXCEPT !.raised = TRUE]
           /\ cache' = marked
           /\ disk' = marked
           /\ UNCHANGED <<live, nextId>>
  /\ pc' = "done"
  /\ UNCHANGED <<todo, pre, prev, nruns>>

\* mutant: the fired marks are replaced by the new mark, not added to
AlertSend_MarkOnly ==
  /\ pc = "alert_send"
  /\ \/ LET id == nextId
            c == [cache EXCEPT !.fired = {cache_key(run.nxt, run.stage)},
                               !.alert = id]
        IN /\ live' = live \cup {<<id, "alert">>}
           /\ nextId' = nextId + 1
           /\ cache' = c
           /\ disk' = c
           /\ log' = log \o <<Created("alert", id,
                                      build_alert_message(OrUnknown(run.nxt),
                                        effective_stage(run.force, run.stage))),
                              Event("save", "-", NoId, "ok")>>
           /\ UNCHANGED run
     \/ /\ log' = Append(log, Event("create", "alert", NoId, "exc"))
        /\ run' = [run EXCEPT !.raised = TRUE]
        /\ UNCHANGED <<disk, cache, live, nextId>>
  /\ pc' = "done"
  /\ UNCHANGED <<todo, pre, prev, nruns>>

\* mutant: the mark is set and saved whether or not the send raised
AlertSend_MarkAnyway ==
  /\ pc = "alert_send"
  /\ LET marked == [cache EXCEPT !.fired = @ \cup {cache_key(run.nxt, run.stage)}]
     IN \/ LET id == nextId
               c == [marked EXCEPT !.alert = id]
           IN /\ live' = live \cup {<<id, "alert">>}
              /\ nextId' = nextId + 1
              /\ cache' = c
              /\ disk' = c
              /\ log' = log \o <<Created("alert", id,
                                         build_alert_message(OrUnknown(run.nxt),
                                           effective_stage(run.force, run.stage))),
                                 Event("save", "-", NoId, "ok")>>
              /\ UNCHANGED run
        \/ /\ log' = log \o <<Event("create", "alert", NoId, "exc"),
                               Event("save", "-", NoId, "ok")>>
           /\ run' = [run EXCEPT !.raised = TRUE]
           /\ cache' = marked
           /\ disk' = marked
           /\ UNCHANGED <<live, nextId>>
  /\ pc' = "done"
  /\ UNCHANGED <<todo, pre, prev, nruns>>

\* TRACK 2: build and send the alert, mark the stage fired, record the id, save
AlertSend ==
  /\ pc = "alert_send"
  /\ \/ LET id == nextId
            c == [cache EXCEPT !.fired = @ \cup {cache_key(run.nxt, run.stage)},
                               !.alert = id]
        IN /\ live' = live \cup {<<id, "alert">>}
           /\ nextId' = nextId + 1
           /\ cache' = c
           /\ disk' = c
           /\ log' = log \o <<Created("alert", id,
                                      build_alert_message(OrUnknown(run.nxt),
                                        effective_stage(run.force, run.stage))),
                              Event("save", "-", NoId, "ok")>>
           /\ UNCHANGED run
     \/ /\ log' = Append(log, Event("create", "alert", NoId, "exc"))
        /\ run' = [run EXCEPT !.raised = TRUE]
        /\ UNCHANGED <<disk, cache, live, nextId>>
  /\ pc' = "done"
  /\ UNCHANGED <<todo, pre, prev, nruns>>

\* somebody removes a message the cache file still points to ("404 is fine if
\* it was already removed manually").  main() can only notice a removal at its
\* next DELETE of that id, so it is enough to let it happen while the run
\* waits for the tracker page.
ManualDelete ==
  /\ pc = "fetch"
  /\ \E id \in LiveIds \cap {disk.info, disk.alert} : live' = Remove(id)
  /\ UNCHANGED <<disk, cache, nextId, pc, run, todo, log, pre, prev, nruns>>

Next ==
  \/ StartRun
  \/ DemoSend
  \/ FetchFails
  \/ Fetch
  \/ InfoDelete
  \/ InfoSend
  \/ CleanupDelete
  \/ AlertDelete
  \/ AlertSend
  \/ ManualDelete

Spec == Init /\ [][Next]_vars

\* ------------------------------------------------------------------------
\* The same program with the previous run remembered in `prev`, for the
\* statements about two consecutive runs.  To keep three runs checkable the
\* environment is narrowed: no demo flag, the page always loads and names
\* the current zone.
\* ------------------------------------------------------------------------
StartTracked ==
  /\ nruns < MaxTrackedRuns
  /\ Begin(FALSE, Summary(nruns > 0, run, log, pre))

FetchTracked == FetchFrom({"Tristram"}, {"Cathedral", "Tristram"}, {55, 30}, BOOLEAN)

NextTracked ==
  \/ StartTracked
  \/ FetchTracked
  \/ InfoDelete
  \/ InfoSend
  \/ CleanupDelete
  \/ AlertDelete
  \/ AlertSend

SpecTracked == Init /\ [][NextTracked]_vars


\* ------------------------------------------------------------------------
\* The stage computation on its own: every minute count a run can observe
\* ------------------------------------------------------------------------
MaxMinutes == 60

InitStage ==
  /\ disk = EmptyCache
  /\ cache = EmptyCache
  /\ live = {}
  /\ nextId = 1
  /\ pc = "clock"
  /\ \E mins \in 0..MaxMinutes : run = [NoRun EXCEPT !.fetched = "ok", !.mins = mins]
  /\ todo = {}
  /\ log = <<>>
  /\ pre = EmptyCache
  /\ prev = Summary(FALSE, NoRun, <<>>, EmptyCache)
  /\ nruns = 1

\* `stage_guess = determine_stage(mins_to_next)`
ComputeStage ==
  /\ pc = "clock"
  /\ run' = [run EXCEPT !.stage = determine_stage(run.mins)]
  /\ pc' = "staged"
  /\ UNCHANGED <<disk, cache, live, nextId, todo, log, pre, prev, nruns>>

SpecStage == InitStage /\ [][ComputeStage]_vars

\* ------------------------------------------------------------------------
\* Vocabulary of the properties
\* ------------------------------------------------------------------------
\* a run of main() has ended (returned or raised)
RunDone == pc = "done" /\ nruns > 0

Stages == {"initial", "30min", "15min", "5min", "outside_window"}

LiveAlerts == {m \in live : m[2] = "alert"}

\* events of the current run's log
Events(op, kind) == {i \in 1..Len(log) : log[i].op = op /\ log[i].kind = kind}
Failed(op, kind) ==
  \E i \in Events(op, kind) : log[i].res \in {"500", "exc"}
\* the DELETE of message id reported success in this run
DeleteSucceeded(kind, id) ==
  \E i \in Events("delete", kind) : log[i].id = id /\ log[i].res \in {"204", "404"}
Saves == Cardinality({i \in 1..Len(log) : log[i].op = "save"})

\* ------------------------------------------------------------------------
\* C1  Dedup idempotence
\* ------------------------------------------------------------------------
\* two consecutive runs, force off in both, saw the same watchlisted next
\* zone at the same alert stage, the clock not having passed the hour in
\* between, and no notifier call of either run failed
TwoAlikeRuns ==
  /\ RunDone
  /\ prev.valid /\ prev.got /\ GotSnapshot(run)
  /\ ~prev.force /\ ~run.force
  /\ run.nxt \in WATCHLIST /\ prev.nxt = run.nxt
  /\ run.stage # "outside_window" /\ prev.stage = run.stage
  /\ run.mins <= prev.mins
  /\ ~prev.failures /\ NotifierFailures(log) = 0

\* C1 as stated: of two such runs exactly one countdown alert is sent in
\* total, and the second run sends none.
C1_ExactlyOneAlert ==
  TwoAlikeRuns => prev.alerts + AlertsSent(log) = 1 /\ AlertCreates(log) = 0

\* C1 amended: of two such runs the second makes no alert send, and the
\* first sends one alert exactly when the pair (zone, stage) was not already
\* marked fired before it (so at most one alert in total).
C1_DedupIdempotence ==
  TwoAlikeRuns =>
    /\ AlertCreates(log) = 0
    /\ prev.alerts = (IF prev.marked THEN 0 ELSE 1)

C1_Witness == TwoAlikeRuns /\ prev.alerts = 1 /\ ~prev.marked /\ pre.alert # NoId

\* ------------------------------------------------------------------------
\* C2  Replace-not-accumulate
\* ------------------------------------------------------------------------
\* C2 as stated: after any sequence of runs at most one countdown alert made
\* by main()'s alert track is live, it is the one recorded as
\* last_alert_message_id, and a run that sent a new alert left the previously
\* recorded one deleted or already gone.
C2_ReplaceNotAccumulate ==
  RunDone =>
    /\ Cardinality(LiveAlerts) <= 1
    /\ \A m \in LiveAlerts : m[1] = disk.alert
    /\ (AlertsSent(log) = 1 /\ pre.alert # NoId) => pre.alert \notin LiveIds

\* ------------------------------------------------------------------------
\* C3  Watchlist gating
\* ------------------------------------------------------------------------
\* C3: in a run with force off whose snapshot's next zone is not on the
\* watchlist, no countdown alert is created (nor attempted) and main() never
\* reaches the alert's delete or send, whatever the stage and prior state.
C3_WatchlistGating ==
  (GotSnapshot(run) /\ ~run.force /\ run.nxt \notin WATCHLIST) =>
    /\ AlertCreates(log) = 0
    /\ pc \notin {"alert_delete", "alert_send"}

C3_Witness ==
  /\ RunDone /\ GotSnapshot(run) /\ ~run.force
  /\ run.nxt = "Tristram" /\ run.stage = "30min"
  /\ pre.alert # NoId /\ pre.fired # {}

\* ------------------------------------------------------------------------
\* C4  Stage computation
\* ------------------------------------------------------------------------
\* C4: for every minute count 0..60 determine_stage gives initial from 50 up,
\* 30min in 26..35, 15min in 12..18, 5min in 3..7 and outside_window for
\* every other value.
C4_StageBands ==
  pc = "staged" =>
    LET m == run.mins
        st == run.stage
    IN /\ st \in Stages
       /\ st = "initial" <=> m >= 50
       /\ st = "30min" <=> (26 <= m /\ m <= 35)
       /\ st = "15min" <=> (12 <= m /\ m <= 18)
       /\ st = "5min" <=> (3 <= m /\ m <= 7)
       /\ st = "outside_window" <=>
            m \in {0, 1, 2} \cup (8..11) \cup (19..25) \cup (36..49)

C4_Witness == pc = "staged" /\ run.mins = 49 /\ run.stage = "outside_window"

\* ------------------------------------------------------------------------
\* C5  Informational refresh only on change
\* ------------------------------------------------------------------------
InfoCalls == InfoDeletes(log) + InfoCreates(log)

C6_ForceOverride ==
  (RunDone /\ GotSnapshot(run) /\ run.force) =>
    /\ AlertCreates(log) = 1
    /\ \A i \in Events("create", "alert") :
         log[i].res = "ok" =>
           /\ log[i].msg.b = (IF run.stage = "outside_window" THEN "initial"
                              ELSE run.stage)
           /\ disk.alert = log[i].id
    /\ pre.alert # NoId => AlertDeletes(log) = 1

\* ------------------------------------------------------------------------
\* C7  Missing next zone
\* ------------------------------------------------------------------------
\* C7: a run whose snapshot has no next zone makes no alert create call,
\* whatever the stage, the force flag and the prior state; and when an alert
\* id is on record and the stage is initial, that alert is gone afterwards
\* and last_alert_message_id is cleared in the cache file.
C7_MissingNextZone ==
  (RunDone /\ GotSnapshot(run) /\ run.nxt = None) =>
    /\ AlertCreates(log) = 0
    /\ (pre.alert # NoId /\ run.stage = "initial") =>
         (pre.alert \notin LiveIds /\ disk.alert = NoId)

\* ------------------------------------------------------------------------
\* C8  A failed create and the persisted state
\* ------------------------------------------------------------------------
InfoCreateFailed == Failed("create", "info")
AlertCreateFailed == Failed("create", "alert")

\* C8 as stated: after a failed create the cache file's fields of that track
\* are what they were before the run.
C8_CreateFailureLeavesState ==
  RunDone =>
    /\ InfoCreateFailed => disk.info = pre.info
    /\ AlertCreateFailed => (disk.alert = pre.alert /\ disk.fired = pre.fired)

\* C8 amended: a failed informational create leaves the whole cache file as
\* it was before the run (nothing was saved); a failed alert create leaves
\* the fired marks as they were, and last_alert_message_id as it was unless
\* the delete of the previous alert had reported success, in which case the
\* id has already been cleared and saved.
C8_CreateFailureState ==
  RunDone =>
    /\ InfoCreateFailed => (disk = pre /\ Saves = 0)
    /\ AlertCreateFailed =>
         /\ disk.fired = pre.fired
         /\ disk.alert = (IF DeleteSucceeded("alert", pre.alert) THEN NoId
                          ELSE pre.alert)

C8_Witness ==
  /\ RunDone /\ AlertCreateFailed
  /\ pre.alert # NoId /\ DeleteSucceeded("alert", pre.alert)
  /\ disk.alert = NoId /\ disk.fired = pre.fired /\ pre.fired # {}

\* ------------------------------------------------------------------------
\* C9  The informational track is best-effort
\* ------------------------------------------------------------------------
\* C9: when a delete or the create of the informational track fails, the
\* alert track is still evaluated in the same run, and the run raises only
\* if the alert's own create fails.
C9_InfoBestEffort ==
  (RunDone /\ GotSnapshot(run)
     /\ (Failed("delete", "info") \/ InfoCreateFailed)) =>
    /\ run.track2
    /\ run.raised => AlertCreateFailed

\* ------------------------------------------------------------------------
\* C10  Source unavailable
\* ------------------------------------------------------------------------
\* the page fetch raised, or it named neither the current nor the next zone
SourceUnavailable ==
  \/ run.fetched = "exc"
  \/ run.fetched = "ok" /\ run.cur = None /\ run.nxt = None

\* C10: when the zone source fails the run is over at once, having made no
\* notifier call and no save, and the cache file is what it was before the
\* run.
C10_SourceUnavailable ==
  SourceUnavailable =>
    /\ pc = "done"
    /\ NotifierCalls(log) = 0
    /\ Saves = 0
    /\ disk = pre

C10_Witness ==
  /\ RunDone /\ run.fetched = "ok" /\ run.cur = None /\ run.nxt = None
  /\ pre.alert # NoId /\ pre.info # NoId /\ pre.fired # {}

\* ------------------------------------------------------------------------
\* C11  Demo mode
\* ------------------------------------------------------------------------
\* successful demo posts of the run that carry the initial template for zone
DemoPosts(zone) ==
  {i \in Events("create", "demo") :
     log[i].res = "ok" /\ log[i].msg = build_alert_message(zone, "initial")}

\* C11: a run with the demo flag set sends exactly one initial-stage message
\* per watchlist entry, makes no zone-source call and no delete call, neither
\* reads nor writes the cache file, and leaves the cache file unchanged.
C11_DemoMode ==
  (RunDone /\ run.demo) =>
    /\ \A zone \in WATCHLIST : Cardinality(DemoPosts(zone)) = 1
    /\ Cardinality(Events("create", "demo")) = Cardinality(WATCHLIST)
    /\ \A i \in 1..Len(log) : log[i].op \notin {"fetch", "delete", "load", "save"}
    /\ disk = pre

\* ------------------------------------------------------------------------
\* The stateless watcher scripts (watcher.py, watcher_requests.py,
\* wawtcher_requests.py, watcher_playwright.py, watcher_d2rw.py): one
\* process from interpreter start to exit.  `run` holds the environment the
\* process was started in and its exit status, `log` its network calls.
\* DISCORD_ROLE_ID is taken to be set.
\* ------------------------------------------------------------------------
WatcherScripts == {"watcher", "watcher_requests", "wawtcher_requests",
                   "watcher_playwright", "watcher_d2rw"}

\* DISCORD_WEBHOOK_URL: not in the environment, the empty string, a URL that
\* is not a webhook address, a webhook address
WebhookValues == {"unset", "empty", "malformed", "valid"}

\* datetime.minute
Minutes == 0..59

SEND_MINUTES == {5, 30, 45, 55}

\* watcher_requests.validate_webhook: None, or the text of the complaint
validate_webhook(url) ==
  IF url \in {"unset", "empty"} THEN "Missing DISCORD_WEBHOOK_URL."
  ELSE IF url = "malformed" THEN "Webhook path incomplete"
  ELSE None

\* `if not WEBHOOK_URL` (os.getenv with default "")
NotSet(url) == url \in {"unset", "empty"}

\* should_send(now_utc) / should_send_now(now_local, force)
should_send(force, minute) == force \/ minute \in SEND_MINUTES

\* scripts whose main() tests TEST_PING
HasTestPing == {"watcher_requests", "wawtcher_requests", "watcher_playwright"}

\* running: -1, then the exit status of the process
Running == -1

\* what the page gave: found is "none" until the script has looked
InitWatcher ==
  /\ disk = EmptyCache
  /\ cache = EmptyCache
  /\ live = {}
  /\ nextId = 1
  /\ pc = "import"
  /\ \E script \in WatcherScripts, url \in WebhookValues,
        ping \in BOOLEAN, force \in BOOLEAN, minute \in Minutes :
       run = [script |-> script, webhook |-> url, test_ping |-> ping,
              force |-> force, minute |-> minute, found |-> "none",
              due |-> FALSE, exit |-> Running]
  /\ todo = {}
  /\ log = <<>>
  /\ pre = EmptyCache
  /\ prev = Summary(FALSE, NoRun, <<>>, EmptyCache)
  /\ nruns = 1

\* the process ends with this status
Exit(status) ==
  /\ pc' = "exited"
  /\ run' = [run EXCEPT !.exit = status]

WatcherFrame == UNCHANGED <<disk, cache, live, nextId, todo, pre, prev, nruns>>

\* module level: watcher.py reads os.environ["DISCORD_WEBHOOK_URL"] (KeyError
\* when it is not there), the others os.getenv / os.environ.get with ""
WatcherImport ==
  /\ pc = "import"
  /\ IF run.script = "watcher" /\ run.webhook = "unset"
       THEN Exit(1)
       ELSE pc' = "main" /\ UNCHANGED run
  /\ UNCHANGED log
  /\ WatcherFrame

\* the head of main(): the configuration test, where the script has one, and
\* the TEST_PING test
WatcherConfig ==
  /\ pc = "main"
  /\ LET proceed == /\ pc' = IF run.script \in HasTestPing /\ run.test_ping
                               THEN "ping" ELSE "fetch"
                    /\ UNCHANGED run
     IN CASE run.script = "watcher_requests" ->
               IF validate_webhook(run.webhook) # None THEN Exit(1) ELSE proceed
          [] run.script \in {"wawtcher_requests", "watcher_playwright"} ->
               IF NotSet(run.webhook) THEN Exit(0) ELSE proceed
          [] OTHER -> proceed
  /\ UNCHANGED log
  /\ WatcherFrame

\* `if TEST_PING: send_discord(...); return`: a status >= 300 is only warned
\* about, a transport error is not caught
WatcherPing ==
  /\ pc = "ping"
  /\ \E res \in {"ok", "4xx", "exc"} :
       /\ log' = Append(log, Event("create", "ping", NoId, res))
       /\ Exit(IF res = "exc" THEN 1 ELSE 0)
  /\ WatcherFrame

\* the page load: requests.get + raise_for_status, page.goto, or
\* watcher_d2rw.fetch.  A failure ends the process with status 1 (uncaught,
\* or sys.exit(1) in watcher_d2rw.main); watcher_playwright exits 1 before
\* the load when playwright cannot be imported.
WatcherFetch ==
  /\ pc = "fetch"
  /\ \/ /\ log' = Append(log, Event("fetch", "-", NoId, "ok"))
        /\ pc' = "match"
        /\ UNCHANGED run
     \/ /\ log' = Append(log, Event("fetch", "-", NoId, "exc"))
        /\ Exit(1)
     \/ /\ run.script = "watcher_playwright"
        /\ UNCHANGED log
        /\ Exit(1)
  /\ WatcherFrame

\* what the script can find in the page it loaded: no Next block, a block
\* without a watched term, a watched term, and (watcher.py) a watched term
\* whose start time does not parse
Findings(script) ==
  IF script = "watcher" THEN {"noblock", "nohits", "hits", "notime"}
  ELSE IF script = "watcher_d2rw" THEN {"nohits", "hits"}
  ELSE {"noblock", "nohits", "hits"}

\* mutant: the force flag also skips the watch-term match
SendDue_ForceSkipsMatch(script, found, force, minute) ==
  IF script = "watcher_d2rw" THEN force \/ found = "hits"
  ELSE force \/ (found = "hits" /\ minute \in SEND_MINUTES)

\* the send decision: watcher_d2rw sends when `FORCE_SEND or
\* should_notify(current)`, the others when a watched term was found and
\* should_send says so
SendDue(script, found, force, minute) ==
  IF script = "watcher_d2rw" THEN force \/ found = "hits"
  ELSE found = "hits" /\ should_send(force, minute)

\* from the loaded page to the send decision
WatcherMatch ==
  /\ pc = "match"
  /\ \E found \in Findings(run.script) :
       LET due == SendDue(run.script, found, run.force, run.minute)
       IN /\ run' = [run EXCEPT !.found = found, !.due = due,
                                !.exit = IF due THEN Running ELSE 0]
          /\ pc' = IF due THEN "send" ELSE "exited"
  /\ UNCHANGED log
  /\ WatcherFrame

\* the exit status after the webhook POST answered res
SendExit(script, res) ==
  IF res = "exc" THEN 1
  ELSE IF res = "4xx" /\ script \in {"watcher", "watcher_d2rw"} THEN 1
  ELSE 0

\* the webhook POST.  watcher_d2rw.send_discord returns without a call when
\* the URL is empty; requests.post("") raises before any request is made.
WatcherSend ==
  /\ pc = "send"
  /\ IF NotSet(run.webhook)
       THEN /\ UNCHANGED log
            /\ Exit(IF run.script = "watcher_d2rw" THEN 0 ELSE 1)
       ELSE \E res \in {"ok", "4xx", "exc"} :
              /\ log' = Append(log, Event("create", "post", NoId, res))
              /\ Exit(SendExit(run.script, res))
  /\ WatcherFrame

NextWatcher ==
  \/ WatcherImport
  \/ WatcherConfig
  \/ WatcherPing
  \/ WatcherFetch
  \/ WatcherMatch
  \/ WatcherSend

SpecWatcher == InitWatcher /\ [][NextWatcher]_vars

\* ------------------------------------------------------------------------
\* C12  Configuration error
\* ------------------------------------------------------------------------
\* the process made a network call (page load or webhook POST)
NetworkCalls == {i \in 1..Len(log) : log[i].op \in {"fetch", "create"}}

\* the process ended having found nothing to post
NothingToDo ==
  /\ pc = "exited"
  /\ run.found # "none"
  /\ ~run.due

\* C12: in every script variant, when the webhook URL is missing at startup
\* the process makes no network call and ends with a non-zero exit status;
\* and a process that ends with nothing to do exits with status zero.
C12_ConfigurationError ==
  /\ NotSet(run.webhook) =>
       /\ NetworkCalls = {}
       /\ pc = "exited" => run.exit # 0
  /\ NothingToDo => run.exit = 0

\* ------------------------------------------------------------------------
\* C13  The informational branch and the stage
\* ------------------------------------------------------------------------
\* no informational id is on record, or the run before this one saw another
\* (current, next) pair
InfoNeedsUpdate ==
  \/ pre.info = NoId
  \/ prev.valid /\ prev.got /\ (prev.cur # run.cur \/ prev.nxt # run.nxt)

\* C13: in a run that obtains a snapshot and whose notifier calls all
\* succeed, at any stage (outside_window included), when no informational id
\* is on record or the zone pair changed, the informational post is created
\* in that run and its id is recorded in the cache file.
C13_InfoEveryRun ==
  (RunDone /\ GotSnapshot(run) /\ NotifierFailures(log) = 0 /\ InfoNeedsUpdate) =>
    \E i \in Events("create", "info") : log[i].res = "ok" /\ disk.info = log[i].id

\* ------------------------------------------------------------------------
\* C14  Delete of an already-absent message
\* ------------------------------------------------------------------------
\* this step made a webhook DELETE: the event it added to the log
DeleteStep == Len(log') > Len(log) /\ log'[Len(log) + 1].op = "delete"

\* C14: a DELETE that answers 204 or 404 is a success and the caller clears
\* the id it deleted from the cache (the alert track saves the cleared id at
\* once); after any other answer or a transport error the step leaves the
\* cache and the cache file as they were.
C14_DeleteOutcome ==
  [][DeleteStep =>
       LET e == log'[Len(log) + 1]
           field == e.kind
       IN IF e.res \in {"204", "404"}
            THEN /\ cache'[field] = NoId
                 /\ field = "alert" => disk'.alert = NoId
            ELSE /\ cache'[field] = cache[field] /\ cache[field] = e.id
                 /\ disk' = disk]_vars

\* an alert that had been removed by hand: its DELETE answered 404, the id is
\* cleared and saved
C14_Witness ==
  /\ pc = "alert_send"
  /\ pre.alert # NoId
  /\ \E i \in Events("delete", "alert") : log[i].id = pre.alert /\ log[i].res = "404"
  /\ cache.alert = NoId /\ disk.alert = NoId

\* ------------------------------------------------------------------------
\* The cache file as text: load_cache / save_cache with json.loads and
\* json.dumps.  Here `cache` is the Python dict itself, a sequence of
\* (key, value) entries in insertion order, and `disk` is the file: whether
\* it exists and its text as a sequence of JSON tokens.
\* ------------------------------------------------------------------------
\* keys main() assigns: the two message ids and f"{zone}_{stage}" marks
IdKeys == {"last_info_message_id", "last_alert_message_id"}
MarkKeys == {"Cathedral_initial"}
\* message ids as the webhook returns them (strings of digits)
IdStrings == {"1", "2"}

\* Python values main() stores: None, True, a str
PyNone == [py |-> "None", s |-> ""]
PyTrue == [py |-> "True", s |-> ""]
PyStr(s) == [py |-> "str", s |-> s]

\* values a key can be assigned
ValuesOf(key) ==
  IF key \in IdKeys THEN {PyNone} \cup {PyStr(s) : s \in IdStrings} ELSE {PyTrue}

\* JSON tokens
Tok(t, s) == [t |-> t, s |-> s]

\* json.dumps of one value / json.loads of one value token
ToJson(v) ==
  IF v.py = "None" THEN Tok("null", "")
  ELSE IF v.py = "True" THEN Tok("true", "")
  ELSE Tok("string", v.s)
FromJson(tok) ==
  IF tok.t = "null" THEN PyNone
  ELSE IF tok.t = "true" THEN PyTrue
  ELSE PyStr(tok.s)

\* position of key in dict d, 0 when absent
IndexOf(d, key) ==
  IF \E i \in 1..Len(d) : d[i].k = key
    THEN CHOOSE i \in 1..Len(d) : d[i].k = key
    ELSE 0

\* mutant: a new key goes in front of the entries already there
Put_Front(d, key, value) ==
  IF IndexOf(d, key) # 0
    THEN [d EXCEPT ![IndexOf(d, key)].v = value]
    ELSE <<[k |-> key, v |-> value]>> \o d

\* d[key] = value: an existing key keeps its place, a new one goes last
Put(d, key, value) ==
  IF IndexOf(d, key) # 0
    THEN [d EXCEPT ![IndexOf(d, key)].v = value]
    ELSE Append(d, [k |-> key, v |-> value])

\* json.dumps(d): "{", the members in the dict's order separated by ",", "}"
RECURSIVE Members(_, _)
Members(d, i) ==
  IF i > Len(d) THEN <<>>
  ELSE <<Tok("string", d[i].k), Tok(":", ""), ToJson(d[i].v)>>
         \o (IF i < Len(d) THEN <<Tok(",", "")>> ELSE <<>>)
         \o Members(d, i + 1)
dumps(d) == <<Tok("{", "")>> \o Members(d, 1) \o <<Tok("}", "")>>

\* the text is one complete JSON object (json.loads raises otherwise)
Parses(text) ==
  /\ Len(text) >= 2
  /\ text[1].t = "{" /\ text[Len(text)].t = "}"
  /\ Len(text) = 2 \/ (Len(text) - 1) % 4 = 0
  /\ \A i \in 2..(Len(text) - 1) :
       CASE (i - 2) % 4 = 0 -> text[i].t = "string"
         [] (i - 2) % 4 = 1 -> text[i].t = ":"
         [] (i - 2) % 4 = 2 -> text[i].t \in {"null", "true", "string"}
         [] OTHER -> text[i].t = ","

\* json.loads(text) of a text that parses: the members in the order read
RECURSIVE ParseMembers(_, _, _)
ParseMembers(text, i, d) ==
  LET d2 == Put(d, text[i].s, FromJson(text[i + 2]))
  IN IF text[i + 3].t = "," THEN ParseMembers(text, i + 4, d2) ELSE d2
loads(text) == IF Len(text) = 2 THEN <<>> ELSE ParseMembers(text, 2, <<>>)

NoFile == [exists |-> FALSE, text |-> <<>>]
FileOf(text) == [exists |-> TRUE, text |-> text]

\* a process starts with no cache file
InitFile ==
  /\ disk = NoFile
  /\ cache = <<>>
  /\ live = {}
  /\ nextId = 1
  /\ pc = "loaded"
  /\ run = NoRun
  /\ todo = {}
  /\ log = <<>>
  /\ pre = NoFile
  /\ prev = Summary(FALSE, NoRun, <<>>, EmptyCache)
  /\ nruns = 1

FileFrame == UNCHANGED <<live, nextId, run, todo, log, prev, nruns>>

\* the process is alive and holds a loaded dict
Alive == pc \in {"loaded", "edited", "saved", "resaved"}

\* load_cache() of a new process; a text that does not parse makes
\* json.loads raise and the process ends
LoadCache ==
  /\ IF ~disk.exists THEN cache' = <<>> /\ pc' = "loaded"
     ELSE IF Parses(disk.text) THEN cache' = loads(disk.text) /\ pc' = "loaded"
     ELSE cache' = <<>> /\ pc' = "crashed"
  /\ UNCHANGED <<disk, pre>>
  /\ FileFrame

\* one of main()'s assignments to the dict
CacheAssign ==
  /\ Alive
  /\ \E key \in IdKeys \cup MarkKeys : \E value \in ValuesOf(key) :
       cache' = Put(cache, key, value)
  /\ pc' = "edited"
  /\ UNCHANGED <<disk, pre>>
  /\ FileFrame

\* save_cache(cache) that completes; pre keeps the content it replaced
SaveCache ==
  /\ Alive
  /\ pre' = disk
  /\ disk' = FileOf(dumps(cache))
  /\ pc' = "saved"
  /\ UNCHANGED cache
  /\ FileFrame

\* save_cache(load_cache()) on a file a completed save wrote
RoundTrip ==
  /\ disk.exists /\ Parses(disk.text)
  /\ pre' = disk
  /\ cache' = loads(disk.text)
  /\ disk' = FileOf(dumps(cache'))
  /\ pc' = "resaved"
  /\ FileFrame

\* save_cache(cache) cut short: Path.write_text opens the file for writing,
\* which empties it, and then writes the text; a process killed (or a write
\* failing) on the way leaves the part written so far
SaveKilled ==
  /\ Alive
  /\ \E n \in 0..(Len(dumps(cache)) - 1) :
       disk' = FileOf(SubSeq(dumps(cache), 1, n))
  /\ pre' = disk
  /\ pc' = "killed"
  /\ UNCHANGED cache
  /\ FileFrame

NextFile ==
  \/ LoadCache
  \/ CacheAssign
  \/ SaveCache
  \/ RoundTrip
  \/ SaveKilled

SpecFile == InitFile /\ [][NextFile]_vars

\* ------------------------------------------------------------------------
\* C15  State file round-trip
\* ------------------------------------------------------------------------
\* C15: for every file content a completed save_cache wrote, loading it and
\* saving what was loaded leaves the file's text as it was, token for token.
C15_RoundTrip == pc = "resaved" => disk = pre

\* a file with both ids, one of them None, and a fired mark went through
C15_Witness ==
  /\ pc = "resaved"
  /\ Len(cache) = 3
  /\ \E i \in 1..Len(disk.text) : disk.text[i].t = "null"
  /\ \E i \in 1..Len(disk.text) : disk.text[i].t = "true"
  /\ cache[1].k \notin IdKeys

\* ------------------------------------------------------------------------
\* C16  Atomic save
\* ------------------------------------------------------------------------
\* C16: when a save is cut short the cache file still holds the complete
\* content saved before it (or already the complete new one), so the next
\* load returns the old or the new state and never fails.
C16_AtomicSave ==
  /\ pc = "killed" => (disk = pre \/ disk = FileOf(dumps(cache)))
  /\ pc # "crashed"

\* ------------------------------------------------------------------------
\* C17  The fired marks are a one-way latch
\* ------------------------------------------------------------------------
\* C17: no step of any run (normal, forced, cleanup at initial, failed send)
\* removes a fired mark from the cache file: the set of marks only grows.
C17_FiredLatch == [][disk.fired \subseteq disk'.fired]_vars

\* a forced run whose send failed, and a cleanup run, ended with the marks
\* of before still there
C17_Witness ==
  /\ RunDone /\ pre.fired # {} /\ disk.fired = pre.fired
  /\ \/ run.force /\ AlertCreateFailed
     \/ ~run.force /\ run.stage = "initial" /\ AlertDeletes(log) = 1
          /\ AlertCreates(log) = 0 /\ Saves = 2

\* ------------------------------------------------------------------------
\* C18  The fired mark follows the create
\* ------------------------------------------------------------------------
\* the pair (next zone, stage) of the run
RunKey == cache_key(run.nxt, run.stage)

\* C18 as stated: after a run whose alert create raised, the mark for the
\* run's pair is not in the cache file.
C18_NoMarkAfterFailedCreate ==
  (RunDone /\ AlertCreateFailed) => RunKey \notin disk.fired

\* C18 amended: a mark is added to the cache file only by a run whose alert
\* create returned; a run whose create raised leaves the marks as they were,
\* so the pair is marked afterwards only if it already was before the run
\* (a forced run), and for a pair that was not, the alert track's tests on
\* the cache file still lead to the send for a watchlisted zone inside a
\* stage window.
C18_MarkOnlyAfterCreate ==
  RunDone =>
    /\ disk.fired # pre.fired =>
         (AlertsSent(log) = 1 /\ disk.fired = pre.fired \cup {RunKey})
    /\ AlertCreateFailed =>
         /\ disk.fired = pre.fired
         /\ RunKey \in disk.fired => (run.force /\ RunKey \in pre.fired)
         /\ (RunKey \notin pre.fired /\ run.nxt \in WATCHLIST
               /\ run.stage # "outside_window") =>
              AlertRoute(FALSE, run.nxt, run.stage, disk)
                \in {"alert_delete", "alert_send"}

C18_Witness ==
  /\ RunDone /\ AlertCreateFailed /\ ~run.force
  /\ run.nxt \in WATCHLIST /\ run.stage = "30min"
  /\ RunKey \notin disk.fired /\ disk.fired # {}

\* ------------------------------------------------------------------------
\* C19  No deleted alert id is left in the cache file
\* ------------------------------------------------------------------------
\* C19: whenever a run has ended, however it ended, the cache file's
\* last_alert_message_id is not the id of a message whose DELETE reported
\* success (204 or 404) in that run; every successful alert delete is
\* followed at once by the save of the cleared id, before the next
\* notifier call.
C19_NoDeletedAlertId ==
  /\ RunDone => (disk.alert = NoId \/ ~DeleteSucceeded("alert", disk.alert))
  /\ \A i \in Events("delete", "alert") :
       log[i].res \in {"204", "404"} =>
         (i < Len(log) /\ log[i + 1].op = "save")

\* the delete succeeded, the send after it raised: the id is gone from the file
C19_Witness ==
  /\ RunDone /\ run.raised /\ pre.alert # NoId
  /\ \E i \in Events("delete", "alert") : log[i].id = pre.alert /\ log[i].res = "204"
  /\ pre.alert \notin LiveIds
  /\ disk.alert = NoId

\* ------------------------------------------------------------------------
\* watcher_d2rw.fetch(url, retries=3, timeout=20): the retry loop.  `run`
\* holds the arguments and the loop variable, `log` the requests made.
\* ------------------------------------------------------------------------
\* largest `retries` argument of the model; the program passes the default
MaxRetries == 3
DefaultRetries == 3

\* outcomes of one urlopen + read: the body, an HTTPError by code, or
\* another exception (URLError, socket timeout)
HttpErrors == {"403", "429", "404", "500"}
OtherErrors == {"URLError", "timeout"}
FetchOutcomes == {"ok"} \cup HttpErrors \cup OtherErrors

\* mutant: `if attempt == retries: raise` is missing for non-HTTP errors
RetryAfter_NoLastRaise(res, attempt, retries) ==
  IF res \in HttpErrors
    THEN res \in {"403", "429"} /\ attempt < retries
    ELSE TRUE

\* the except clauses: does the loop go on after this error?
RetryAfter(res, attempt, retries) ==
  IF res \in HttpErrors
    THEN res \in {"403", "429"} /\ attempt < retries
    ELSE attempt # retries

\* time.sleep before the next attempt, in half seconds: 2 * attempt after an
\* HTTP error, 1.5 * attempt after another error
SleepAfter(res, attempt) ==
  IF res \in HttpErrors THEN 4 * attempt ELSE 3 * attempt

\* `for attempt in range(1, retries+1)`: the body runs again, or the loop is
\* exhausted and the function ends without a return statement
LoopNext(attempt, retries) ==
  IF attempt <= retries THEN "request" ELSE "fell_out"

InitFetch ==
  /\ disk = EmptyCache
  /\ cache = EmptyCache
  /\ live = {}
  /\ nextId = 1
  /\ \E retries \in 1..MaxRetries :
       /\ run = [retries |-> retries, attempt |-> 1, slept |-> 0]
       /\ pc = LoopNext(1, retries)
  /\ todo = {}
  /\ log = <<>>
  /\ pre = EmptyCache
  /\ prev = Summary(FALSE, NoRun, <<>>, EmptyCache)
  /\ nruns = 1

\* one pass through the loop body
FetchAttempt ==
  /\ pc = "request"
  /\ \E res \in FetchOutcomes :
       /\ log' = Append(log, Event("fetch", "-", NoId, res))
       /\ IF res = "ok"
            THEN pc' = "returned" /\ UNCHANGED run
          ELSE IF RetryAfter(res, run.attempt, run.retries)
            THEN /\ run' = [run EXCEPT !.attempt = @ + 1,
                                       !.slept = @ + SleepAfter(res, run.attempt)]
                 /\ pc' = LoopNext(run.attempt + 1, run.retries)
          ELSE pc' = "raised" /\ UNCHANGED run
  /\ UNCHANGED <<disk, cache, live, nextId, todo, pre, prev, nruns>>

SpecFetch == InitFetch /\ [][FetchAttempt]_vars

\* ------------------------------------------------------------------------
\* C20  fetch terminates by returning or raising
\* ------------------------------------------------------------------------
\* requests made so far and the outcome of the last one
Requests == Len(log)
LastResult == log[Len(log)].res

\* C20: fetch makes at most `retries` requests; it goes on to another
\* request only after a 403/429 or a non-HTTP error with attempts left; it
\* ends by returning the body, by re-raising any other HTTP error at once,
\* or by re-raising the last error on the final attempt; it never leaves the
\* loop without a value.
C20_FetchTerminates ==
  /\ pc \in {"request", "returned", "raised"}
  /\ Requests <= run.retries
  /\ pc = "request" => (Requests = run.attempt - 1 /\ run.attempt <= run.retries)
  /\ \A i \in 1..(Requests - 1) :
       log[i].res \in {"403", "429"} \cup OtherErrors
  /\ pc = "returned" => LastResult = "ok"
  /\ pc = "raised" =>
       /\ LastResult # "ok"
       /\ LastResult \in {"404", "500"} \/ Requests = run.retries
  /\ (Requests > 0 /\ LastResult \in {"404", "500"}) => pc = "raised"
  /\ (Requests = run.retries /\ Requests > 0) => pc \in {"returned", "raised"}

\* the default three attempts used up: 403, a timeout, then 429 re-raised
C20_Witness ==
  /\ pc = "raised" /\ run.retries = DefaultRetries /\ Requests = DefaultRetries
  /\ log[1].res = "403" /\ log[2].res = "timeout" /\ log[3].res = "429"
  /\ run.slept = 10

\* ------------------------------------------------------------------------
\* C21  When the stateless watchers post
\* ------------------------------------------------------------------------
\* the four watchers that gate the send on the minute of the hour
MinuteGated == {"watcher", "watcher_playwright", "watcher_requests",
                "wawtcher_requests"}

\* webhook POSTs of the notification made by the process
Posts == Events("create", "post")

\* a watch term matched what the script extracted from the page
TermMatched == run.found \in {"hits", "notime"}

\* the force flag is set or the minute is a send minute
MinuteOrForce == run.force \/ run.minute \in SEND_MINUTES

\* a process of one of the four watchers, TEST_PING off, has ended
GatedRunOver == pc = "exited" /\ run.script \in MinuteGated /\ ~run.test_ping

\* C21 as stated: with a webhook configured, such a process posts exactly
\* when a watch term matched and (force is set or the minute is a send
\* minute), and it posts at most once.
C21_PostIffMatchAndMinute ==
  (GatedRunOver /\ run.webhook = "valid") =>
    /\ Cardinality(Posts) <= 1
    /\ Posts # {} <=> (TermMatched /\ MinuteOrForce)

\* C21 amended: such a process makes the notification's POST exactly when a
\* watch term matched, (force is set or the minute is a send minute), the
\* webhook URL is not empty and, in watcher.py, the start time of the next
\* zone could be parsed; force never replaces the match; and no process
\* makes more than one POST.
C21_PostIffMatchMinuteAndTime ==
  /\ run.script \in MinuteGated => Cardinality(Posts) <= 1
  /\ GatedRunOver =>
       (Posts # {} <=>
          /\ TermMatched /\ MinuteOrForce
          /\ run.found # "notime"
          /\ ~NotSet(run.webhook))
  /\ (run.script \in MinuteGated /\ ~run.test_ping /\ Posts # {}) => pc = "exited"

\* force set, off a send minute, a term matched: posted; and the same with
\* no match would not be
C21_Witness ==
  /\ GatedRunOver /\ run.script = "watcher"
  /\ run.force /\ run.minute = 17 /\ run.found = "hits"
  /\ run.webhook = "valid"
  /\ Cardinality(Posts) = 1

====
